---- MODULE Spec2Model ----
(***************************************************************************)
(* dephost: a PyPI mirror with a fetch-through artifact cache and a        *)
(* periodically refreshed package index.                                   *)
(*                                                                         *)
(* The repository holds two copies of the service:                         *)
(*   impl = "pypi"    : app/pypi/service.py + index_manager.py +           *)
(*                      package_manager.py (the refactored copy)           *)
(*   impl = "package" : app/package/pypi/service.py (the monolithic copy)  *)
(* Both are modelled; impl is fixed at start-up.  app/pypi/cache.py        *)
(* (PyPICache) keeps a third copy of the index fields, modelled with       *)
(* impl = "cache", and the cached version lists.  The methods are modelled *)
(* as written; how the objects are imported and constructed (for instance  *)
(* the argument app/pypi/service.py passes to PyPIIndexManager()) is not.  *)
(*                                                                         *)
(* Python str values that the code inspects character by character are     *)
(* sequences of one-character strings; bytes payloads are small positive   *)
(* integers; datetime values are integers on a clock that counts hours.   *)
(***************************************************************************)
EXTENDS Integers, Sequences, FiniteSets, TLC

VARIABLES
    impl,               \* which copy of the service runs
    files,              \* artifact tree: storage path -> bytes (NoFile when absent)
    dirs,               \* artifact tree: package and version directories that exist
    get,                \* get_package coroutines, one frame per request slot
    fetched,            \* history: bytes handed out by the latest populating get, per path
    local_index,        \* _local_index
    remote_index,       \* _remote_index
    last_index_update,  \* last_index_update (NoTime when None)
    index_file,         \* package_index.json
    now,                \* datetime.now()
    phase,              \* "boot" while lifespan runs init_index, then "serving"
    task,               \* index coroutines: the request/startup task and the scheduler job
    pypi_cache,         \* pypi_cache.packages: package name -> cached version list
    lookup,             \* get_package_versions route coroutines, one frame per request slot
    op                  \* history: the index operation that ran last and what it returned

vars == <<impl, files, dirs, get, fetched, local_index, remote_index,
          last_index_update, index_file, now, phase, task, pypi_cache, lookup, op>>

cacheVars == <<files, dirs, get, fetched>>
indexVars == <<local_index, remote_index, last_index_update, index_file, now, phase, task>>
versionVars == <<pypi_cache, lookup>>

(***************************************************************************)
(* Bounds                                                                  *)
(***************************************************************************)
NumSources == 3     \* configured mirrors
MaxClock == 2       \* the clock stops advancing here

Impls == {"pypi", "package"}
Sources == 1..NumSources
Procs == {1, 2}     \* request slots: get_package calls in flight at once

(***************************************************************************)
(* Python str helpers                                                      *)
(***************************************************************************)
Range(s) == {s[i] : i \in DOMAIN s}

\* str.lower() on the letters that occur in the model
lower_char(c) ==
    CASE c = "A" -> "a"
      [] c = "B" -> "b"
      [] OTHER -> c

str_lower(s) == [i \in 1..Len(s) |-> lower_char(s[i])]

\* str.replace(old, new) for one-character old and new
str_replace(s, old, new) == [i \in 1..Len(s) |-> IF s[i] = old THEN new ELSE s[i]]

\* needle in hay
str_contains(hay, needle) ==
    \E i \in 0..(Len(hay) - Len(needle)) : SubSeq(hay, i + 1, i + Len(needle)) = needle

\* str.rfind(c, 0, upto): last index <= upto holding c, 0 when there is none
RECURSIVE str_rfind(_, _, _)
str_rfind(s, c, upto) ==
    IF upto = 0 THEN 0
    ELSE IF s[upto] = c THEN upto
    ELSE str_rfind(s, c, upto - 1)

\* urllib.parse.quote: unreserved characters and "/" are kept, the rest is %XX
quote_char(c) ==
    CASE c = " " -> <<"%", "2", "0">>
      [] c = "%" -> <<"%", "2", "5">>
      [] OTHER -> <<c>>

RECURSIVE quote(_)
quote(s) == IF s = <<>> THEN <<>> ELSE quote_char(Head(s)) \o quote(Tail(s))

(***************************************************************************)
(* NameNormalizer                                                          *)
(***************************************************************************)
normalize_package_name(package_name) ==
    str_replace(str_replace(str_lower(package_name), "_", "-"), " ", "-")

normalize_package_path(package_name) == quote(normalize_package_name(package_name))

normalize_filename(filename) ==
    LET d1 == str_rfind(filename, ".", Len(filename))
        d2 == IF d1 = 0 THEN 0 ELSE str_rfind(filename, ".", d1 - 1)
        cut == IF d2 > 0 THEN d2 ELSE d1
        base_name == SubSeq(filename, 1, cut - 1)
        extensions == SubSeq(filename, cut + 1, Len(filename))
        normalized == IF cut > 0
                      THEN str_replace(base_name, "_", "-") \o <<".">> \o extensions
                      ELSE str_replace(filename, "_", "-")
    IN quote(normalized)

(***************************************************************************)
(* ArtifactCache: requests, mirrors and the transport                      *)
(***************************************************************************)
Versions == {"1.0", "2.0"}
MaxContent == 2                     \* non-empty payloads are 1..MaxContent
Contents == 1..MaxContent
NoFile == 0                         \* no file at the path

\* the requests of the model: two spellings of one package, two versions
Requests == {
    [package_name |-> <<"A", "_", "b">>, version |-> "1.0", filename |-> <<"a", "_", "b", ".", "w">>],
    [package_name |-> <<"a", "-", "b">>, version |-> "1.0", filename |-> <<"a", "_", "b", ".", "w">>],
    [package_name |-> <<"a", "-", "b">>, version |-> "2.0", filename |-> <<"a", "_", "b", ".", "w">>] }
NoReq == [package_name |-> <<>>, version |-> "", filename |-> <<>>]
RawNames == {req.package_name : req \in Requests}

\* settings.pypi.sources: odd mirrors are simple-index mirrors ("/simple" in
\* the URL), even ones expose the /packages/ path template
is_simple(source_url) == source_url % 2 = 1

\* DownloadClient.download: it raises, returns None, returns b"" or returns a
\* non-empty body
TransportFailures == {"raise", "none", "empty"}
Response(status, body) == [status |-> status, body |-> body]

\* per-package listing pages a simple mirror may serve: the <a> elements in
\* document order, text = link.string or "", href = link.get("href") or ""
ListingPages == {
    << [text |-> <<"x", ".", "w">>, href |-> "u0"],
       [text |-> <<"x", "a", "-", "b", ".", "w">>, href |-> "u2"],
       [text |-> <<"a", "_", "b", ".", "w">>, href |-> "u1"] >>,
    << [text |-> <<>>, href |-> "u0"],
       [text |-> <<"x", ".", "w">>, href |-> "u0"] >>,
    << [text |-> <<"a", "-", "b", ".", "w">>, href |-> ""] >> }

IndexResponses ==
    {Response(status, <<>>) : status \in TransportFailures}
        \cup {Response("ok", page) : page \in ListingPages}
FileResponses ==
    {Response(status, NoFile) : status \in TransportFailures}
        \cup {Response("ok", content) : content \in Contents}

NoUrl == [source |-> 0, ref |-> <<>>]
NoResult == [kind |-> "none"]
Bytes(content) == [kind |-> "bytes", data |-> content]
\* HTTPException(404, "Package {package_name} version {version} not found")
NotFound(package_name, version) ==
    [kind |-> "404", package |-> package_name, version |-> version]
StorageError == [kind |-> "oserror"]

\* a get_package coroutine: where it waits, its arguments, the loop variable
\* source_url, the URL being fetched, and (history) the mirrors it went
\* through with what each one gave, and the file found at the start
IdleFrame == [pc |-> "idle", req |-> NoReq, src |-> 0, url |-> NoUrl,
              tried |-> <<>>, result |-> NoResult, start |-> NoFile]

\* a storage path built from the package name as the client spelled it
get_package_path_raw(package_name, version, filename) ==
    <<package_name, version, normalize_filename(filename)>>

get_package_path(package_name, version, filename) ==
    <<normalize_package_name(package_name), version, normalize_filename(filename)>>

StoragePaths ==
    {get_package_path(r.package_name, r.version, r.filename) : r \in Requests}

PathOf(req) == get_package_path(req.package_name, req.version, req.filename)

\* a link selection that takes the last matching <a> of the page
select_file_url_last(page, filename) ==
    LET matching == {i \in 1..Len(page) :
                        LET normalized_link == str_replace(page[i].text, "_", "-")
                        IN normalized_link # <<>> /\
                           str_contains(normalized_link, normalize_filename(filename))}
    IN IF matching = {} THEN ""
       ELSE page[CHOOSE i \in matching : \A j \in matching : i >= j].href

\* the first <a> whose text, underscores hyphenated, contains the normalized
\* filename; its href ("" when there is no such link or it has no href)
select_file_url(page, filename) ==
    LET matching == {i \in 1..Len(page) :
                        LET normalized_link == str_replace(page[i].text, "_", "-")
                        IN normalized_link # <<>> /\
                           str_contains(normalized_link, normalize_filename(filename))}
    IN IF matching = {} THEN ""
       ELSE page[CHOOSE i \in matching : \A j \in matching : i <= j].href

\* the file URL on a mirror with the /packages/ template
packages_url(which, source_url, req) ==
    [source |-> source_url,
     ref |-> <<"packages", normalize_package_path(req.package_name), req.version,
               IF which = "pypi" THEN req.filename ELSE normalize_filename(req.filename)>>]

index_url(source_url, req) ==
    [source |-> source_url, ref |-> <<normalize_package_path(req.package_name)>>]

Trying(source_url) == [mirror |-> source_url, got |-> "pending", data |-> NoFile]

\* the mirror being tried gets its outcome
Concluded(frame, got, data) ==
    [frame.tried EXCEPT ![Len(frame.tried)].got = got, ![Len(frame.tried)].data = data]

\* a mirror loop that raises 404 without trying the last mirror
try_source_short(which, frame, i) ==
    IF i >= NumSources
    THEN [frame EXCEPT !.pc = "done", !.src = 0, !.url = NoUrl,
                       !.result = NotFound(frame.req.package_name, frame.req.version)]
    ELSE IF is_simple(i)
    THEN [frame EXCEPT !.pc = "await_index", !.src = i, !.url = index_url(i, frame.req),
                       !.tried = Append(frame.tried, Trying(i))]
    ELSE [frame EXCEPT !.pc = "await_file", !.src = i,
                       !.url = packages_url(which, i, frame.req),
                       !.tried = Append(frame.tried, Trying(i))]

\* `for source_url in self.sources` from mirror i on, up to the next await:
\* the listing fetch on a simple mirror, the file fetch on the others, and
\* HTTP 404 once the list is exhausted
try_source(which, frame, i) ==
    IF i > NumSources
    THEN [frame EXCEPT !.pc = "done", !.src = 0, !.url = NoUrl,
                       !.result = NotFound(frame.req.package_name, frame.req.version)]
    ELSE IF is_simple(i)
    THEN [frame EXCEPT !.pc = "await_index", !.src = i, !.url = index_url(i, frame.req),
                       !.tried = Append(frame.tried, Trying(i))]
    ELSE [frame EXCEPT !.pc = "await_file", !.src = i,
                       !.url = packages_url(which, i, frame.req),
                       !.tried = Append(frame.tried, Trying(i))]

\* a mirror loop that passes over the mirror after a failed one
next_source_skipping(which, frame) ==
    try_source(which, [frame EXCEPT !.tried = Concluded(frame, "fail", NoFile)], frame.src + 2)

\* the except/continue of the mirror loop
next_source(which, frame) ==
    try_source(which, [frame EXCEPT !.tried = Concluded(frame, "fail", NoFile)], frame.src + 1)

\* get_package without the look at the cache
cached_bytes_never(fs, path) == NoFile

\* package_path.exists() / read_bytes()
cached_bytes(fs, path) == fs[path]

\* package_path.parent.mkdir(parents=True, exist_ok=True)
mkdir_parents(ds, path) == ds \cup {<<path[1]>>, <<path[1], path[2]>>}

\* get_package that returns the payload without storing it
write_bytes_dropped(fs, path, content) == fs

\* package_path.write_bytes(content)
write_bytes(fs, path, content) == [fs EXCEPT ![path] = content]

\* what the filesystem does when get_package stores a payload: the write
\* succeeds, or write_bytes raises after the directories were made
StorageOutcomes == {"ok", "write_error"}

\* files of one version directory
FilesIn(fs, package_dir) ==
    {path \in DOMAIN fs : fs[path] # NoFile /\ <<path[1], path[2]>> = package_dir}

\* version directories of one package directory
VersionDirsIn(ds, package) == {d \in ds : Len(d) = 2 /\ d[1] = package}

(***************************************************************************)
(* ArtifactCache: get_package                                              *)
(***************************************************************************)
\* get_package up to its first await: the cache hit, or the first mirror
GetPackage(p, req) ==
    /\ get[p].pc = "idle"
    /\ LET package_path == PathOf(req)
           frame == [IdleFrame EXCEPT !.req = req, !.start = files[package_path]]
       IN get' = [get EXCEPT ![p] =
                    IF cached_bytes(files, package_path) # NoFile
                    THEN [frame EXCEPT !.pc = "done",
                                       !.result = Bytes(cached_bytes(files, package_path))]
                    ELSE try_source(impl, frame, 1)]
    /\ UNCHANGED <<impl, versionVars, files, dirs, fetched, op>>
    /\ UNCHANGED indexVars

\* the listing page of a simple mirror arrives (or the fetch fails)
IndexResponse(p, index_content) ==
    /\ get[p].pc = "await_index"
    /\ LET frame == get[p]
           file_url == IF index_content.status \in TransportFailures THEN ""
                       ELSE select_file_url(index_content.body, frame.req.filename)
       IN get' = [get EXCEPT ![p] =
                    IF file_url = ""
                    THEN next_source(impl, frame)
                    ELSE [frame EXCEPT !.pc = "await_file",
                                       !.url = [source |-> frame.src, ref |-> <<"href", file_url>>]]]
    /\ UNCHANGED <<impl, versionVars, files, dirs, fetched, op>>
    /\ UNCHANGED indexVars

\* the artifact fetch answers; a non-empty payload is stored and returned
FileResponse(p, response, storage) ==
    /\ get[p].pc = "await_file"
    /\ LET frame == get[p]
           content == response.body
           package_path == PathOf(frame.req)
       IN IF response.status \in TransportFailures
          THEN /\ get' = [get EXCEPT ![p] = next_source(impl, frame)]
               /\ UNCHANGED <<files, dirs, fetched>>
          ELSE IF storage = "ok"
          THEN /\ dirs' = mkdir_parents(dirs, package_path)
               /\ files' = write_bytes(files, package_path, content)
               /\ fetched' = [fetched EXCEPT ![package_path] = content]
               /\ get' = [get EXCEPT ![p] = [frame EXCEPT !.pc = "done", !.url = NoUrl,
                                                          !.tried = Concluded(frame, "ok", content),
                                                          !.result = Bytes(content)]]
          ELSE IF impl = "pypi"
          \* app/pypi: the write is outside every try, the OSError leaves get_package
          THEN /\ dirs' = mkdir_parents(dirs, package_path)
               /\ get' = [get EXCEPT ![p] = [frame EXCEPT !.pc = "done", !.url = NoUrl,
                                                          !.tried = Concluded(frame, "ok", content),
                                                          !.result = StorageError]]
               /\ UNCHANGED <<files, fetched>>
          \* app/package: the write is inside the per-mirror try, the next mirror is tried
          ELSE /\ dirs' = mkdir_parents(dirs, package_path)
               /\ get' = [get EXCEPT ![p] = next_source(impl, frame)]
               /\ UNCHANGED <<files, fetched>>
    /\ UNCHANGED <<impl, versionVars, op>>
    /\ UNCHANGED indexVars

\* the response has been sent; the request slot is free again
ReleaseRequest(p) ==
    /\ get[p].pc = "done"
    /\ get' = [get EXCEPT ![p] = IdleFrame]
    /\ UNCHANGED <<impl, versionVars, files, dirs, fetched, op>>
    /\ UNCHANGED indexVars

(***************************************************************************)
(* ArtifactCache: delete_package                                           *)
(***************************************************************************)
\* a delete_package that removes the package directory with all its versions
delete_package_pypi_all_versions(package_name, version, removed, ok) ==
    LET name == normalize_package_name(package_name)
        package_dir == <<name, version>>
    IN /\ package_dir \in dirs
       /\ removed \subseteq FilesIn(files, package_dir)
       /\ ok => removed = FilesIn(files, package_dir)
       /\ files' = [path \in DOMAIN files |->
                       IF path \in removed \/ (ok /\ path[1] = name) THEN NoFile ELSE files[path]]
       /\ fetched' = [path \in DOMAIN fetched |-> IF path \in removed THEN NoFile ELSE fetched[path]]
       /\ dirs' = IF ~ok THEN dirs ELSE {d \in dirs : d[1] # name}

\* PackageManager.delete_package: unlink every file of the version
\* directory, remove it, remove the package directory when it became empty.
\* `removed` are the files unlinked before the filesystem raised (all of
\* them when it did not); an exception is logged and False returned.
delete_package_pypi(package_name, version, removed, ok) ==
    LET package_dir == <<normalize_package_name(package_name), version>>
        left == dirs \ {package_dir}
    IN /\ package_dir \in dirs
       /\ removed \subseteq FilesIn(files, package_dir)
       /\ ok => removed = FilesIn(files, package_dir)
       /\ files' = [path \in DOMAIN files |-> IF path \in removed THEN NoFile ELSE files[path]]
       /\ fetched' = [path \in DOMAIN fetched |-> IF path \in removed THEN NoFile ELSE fetched[path]]
       /\ dirs' = IF ~ok THEN dirs
                  ELSE IF VersionDirsIn(left, package_dir[1]) = {}
                  THEN left \ {<<package_dir[1]>>}
                  ELSE left

DeletePackage(package_name, version, removed, ok) ==
    /\ impl = "pypi"
    /\ delete_package_pypi(package_name, version, removed, ok)
    /\ UNCHANGED <<impl, versionVars, get, op>>
    /\ UNCHANGED indexVars

(***************************************************************************)
(* IndexStore: state, snapshot format, staleness                           *)
(***************************************************************************)
NoTime == -1                        \* last_index_update is None
cache_ttl == 1                      \* index_cache_ttl = 3600 s; the clock counts hours
max_retries == 3
PackageNames == {<<"b", "a", "r">>, <<"f", "o", "o">>}
Tasks == {"main", "job"}

\* ord() of the characters that occur in package names
ord(c) ==
    CASE c = "a" -> 97 [] c = "b" -> 98 [] c = "f" -> 102
      [] c = "o" -> 111 [] c = "r" -> 114 [] OTHER -> 0

\* a < b on Python str
RECURSIVE str_less(_, _)
str_less(a, b) ==
    IF b = <<>> THEN FALSE
    ELSE IF a = <<>> THEN TRUE
    ELSE IF Head(a) # Head(b) THEN ord(Head(a)) < ord(Head(b))
    ELSE str_less(Tail(a), Tail(b))

\* list(a_set): the elements in some order
RECURSIVE list_of(_)
list_of(S) == IF S = {} THEN <<>> ELSE LET x == CHOOSE y \in S : TRUE IN <<x>> \o list_of(S \ {x})

RECURSIVE insort(_, _)
insort(sorted_seq, x) ==
    IF sorted_seq = <<>> THEN <<x>>
    ELSE IF str_less(x, Head(sorted_seq)) THEN <<x>> \o sorted_seq
    ELSE <<Head(sorted_seq)>> \o insort(Tail(sorted_seq), x)

\* sorted(a_list)
RECURSIVE sorted(_)
sorted(seq) == IF seq = <<>> THEN <<>> ELSE insort(sorted(Tail(seq)), Head(seq))

\* package_index.json
NoSnapshot == [kind |-> "absent"]   \* the file does not exist
Garbage == [kind |-> "garbage"]     \* a truncated file: json.load raises
JsonNull == [type |-> "null", value |-> 0]
isoformat(t) == [type |-> "str", value |-> t]
fromisoformat(j) == j.value
\* a last_update string that datetime.fromisoformat rejects (ValueError)
NotADate == [type |-> "str", value |-> NoTime]

\* the index as held in memory
Index(l, r, u) == [local |-> l, remote |-> r, last |-> u]
\* an index in memory that has lost its remote set
MemoryWithoutRemote == Index(local_index, {}, last_index_update)

Memory == Index(local_index, remote_index, last_index_update)
EmptyIndex == Index({}, {}, NoTime)

\* a staleness test that expires the index one tick early
is_index_expired_at_ttl(last, clock) == last = NoTime \/ clock - last >= cache_ttl

is_index_expired(last, clock) == last = NoTime \/ clock - last > cache_ttl

\* a listing that forgets the local packages
get_all_packages_remote(index) == index.remote

get_all_packages(index) == index.local \cup index.remote

\* cache_data as json.dump writes it
cache_data(index) ==
    [kind |-> "json",
     last_update |-> IF index.last # NoTime THEN isoformat(index.last) ELSE JsonNull,
     local_packages |-> list_of(index.local),
     remote_packages |-> list_of(index.remote)]

\* what the filesystem does when the snapshot is written: the write succeeds,
\* open() raises and the file stays, or the write raises on a truncated file
SnapshotOutcomes == {"ok", "open_error", "write_error"}

\* _save_index: the file after the call; failures are logged and swallowed.
\* app/package calls last_index_update.isoformat() without the None test, so
\* with no timestamp it raises before the file is opened.
save_index(which, index, file, io) ==
    IF which = "package" /\ index.last = NoTime THEN file
    ELSE IF io = "ok" THEN cache_data(index)
    ELSE IF io = "open_error" THEN file
    ELSE Garbage

\* a load that takes the two sets from the file and forgets the timestamp
load_index_untimed(which, file, index) ==
    IF file.kind # "json" THEN index
    ELSE Index(Range(file.local_packages), Range(file.remote_packages), index.last)

\* the load of init_index: the index after it.  The fields are assigned in
\* the order local, remote, last; an exception stops the load where it is.
\* app/package calls fromisoformat on a null last_update, which raises, as
\* fromisoformat does in both copies on a string that is not a date.
load_index(which, file, index) ==
    IF file.kind # "json" THEN index
    ELSE Index(Range(file.local_packages), Range(file.remote_packages),
               IF file.last_update = NotADate THEN index.last
               ELSE IF file.last_update # JsonNull THEN fromisoformat(file.last_update)
               ELSE IF which = "pypi" THEN NoTime
               ELSE index.last)

\* the global listing pages a mirror may serve: link.string of each <a>
\* (<<>> when it is None or empty), in document order
UpstreamPages == {
    << <<"f", "o", "o">>, <<>>, <<"b", "a", "r">> >>,
    << <<"b", "a", "r">>, <<"b", "a", "r">> >>,
    << <<>> >> }
UpstreamResponses ==
    {Response(status, <<>>) : status \in TransportFailures}
        \cup {Response("ok", page) : page \in UpstreamPages}

\* [link.string for link in soup.find_all("a") if link.string]
link_strings(page) == SelectSeq(page, LAMBDA text : text # <<>>)

\* an index coroutine: where it waits, on whose behalf update_index runs,
\* and the loop variables of list_upstream_packages
IdleTask == [pc |-> "idle", run |-> "", src |-> 0, retries |-> 0]
Called(name, ret, io) == [name |-> name, ret |-> ret, io |-> io]

(***************************************************************************)
(* PyPICache: the cached version lists                                     *)
(***************************************************************************)
\* package_name not in self.packages
NoEntry == [versions |-> {}, last_updated |-> NoTime]

\* PackageCache(versions=versions, last_updated=datetime.now())
PackageCache(versions, clock) == [versions |-> versions, last_updated |-> clock]

\* what list_versions may return: the versions it found, none when it found
\* nothing
VersionLists == SUBSET Versions

\* a get_package_versions route coroutine: where it waits, for which
\* package, and (history) when it called list_versions
IdleLookup == [pc |-> "idle", package_name |-> <<>>, called_at |-> NoTime]

(***************************************************************************)
(* IndexStore: synchronous operations                                      *)
(***************************************************************************)
SetIndex(index) ==
    /\ local_index' = index.local
    /\ remote_index' = index.remote
    /\ last_index_update' = index.last

\* an update_local_index that takes the name back when the snapshot write fails
UpdateLocalIndex_undone(package_name, io) ==
    /\ phase = "serving"
    /\ LET index == [Memory EXCEPT !.local = @ \cup {package_name}] IN
       /\ SetIndex(IF io = "ok" THEN index ELSE Memory)
       /\ index_file' = save_index(impl, index, index_file, io)
    /\ op' = Called("update_local_index", NoResult, io)
    /\ UNCHANGED <<impl, versionVars, now, phase, task>>
    /\ UNCHANGED cacheVars

\* update_local_index(package_name)
UpdateLocalIndex(package_name, io) ==
    /\ phase = "serving"
    /\ LET index == [Memory EXCEPT !.local = @ \cup {package_name}] IN
       /\ SetIndex(index)
       /\ index_file' = save_index(impl, index, index_file, io)
    /\ op' = Called("update_local_index", NoResult, io)
    /\ UNCHANGED <<impl, versionVars, now, phase, task>>
    /\ UNCHANGED cacheVars

\* remove_from_local_index(package_name)
RemoveFromLocalIndex(package_name, io) ==
    /\ phase = "serving"
    /\ LET index == [Memory EXCEPT !.local = @ \ {package_name}] IN
       /\ SetIndex(index)
       /\ index_file' = save_index(impl, index, index_file, io)
    /\ op' = Called("remove_from_local_index", NoResult, io)
    /\ UNCHANGED <<impl, versionVars, now, phase, task>>
    /\ UNCHANGED cacheVars

\* a clear_index that leaves the snapshot file behind
clear_index_keeps_file(index, file) == [index |-> EmptyIndex, file |-> file]

\* clear_index: what is left of the index and of the snapshot file
clear_index(index, file) == [index |-> EmptyIndex, file |-> NoSnapshot]

ClearIndex ==
    /\ phase = "serving"
    /\ LET cleared == clear_index(Memory, index_file) IN
       /\ SetIndex(cleared.index)
       /\ index_file' = cleared.file
    /\ op' = Called("clear_index", [unlinked |-> index_file # NoSnapshot], "-")
    /\ UNCHANGED <<impl, versionVars, now, phase, task>>
    /\ UNCHANGED cacheVars

\* get_index_status()
get_index_status(index, clock) ==
    [last_update |-> IF index.last # NoTime THEN isoformat(index.last) ELSE JsonNull,
     local_packages_count |-> Cardinality(index.local),
     remote_packages_count |-> Cardinality(index.remote),
     is_expired |-> is_index_expired(index.last, clock)]

GetIndexStatus ==
    /\ phase = "serving"
    /\ op' = Called("get_index_status", get_index_status(Memory, now), "-")
    /\ UNCHANGED <<impl, versionVars, local_index, remote_index, last_index_update, index_file, now, phase, task>>
    /\ UNCHANGED cacheVars

\* time passes
Tick ==
    /\ now < MaxClock
    /\ now' = now + 1
    /\ op' = Called("tick", NoResult, "-")
    /\ UNCHANGED <<impl, versionVars, local_index, remote_index, last_index_update, index_file, phase, task>>
    /\ UNCHANGED cacheVars

\* the process is restarted: a new service object, the files stay
Restart ==
    /\ SetIndex(EmptyIndex)
    /\ phase' = "boot"
    /\ task' = [t \in Tasks |-> IdleTask]
    /\ get' = [p \in Procs |-> IdleFrame]
    /\ pypi_cache' = [package_name \in RawNames |-> NoEntry]
    /\ lookup' = [p \in Procs |-> IdleLookup]
    /\ op' = Called("__init__", NoResult, "-")
    /\ UNCHANGED <<impl, index_file, now, files, dirs, fetched>>

(***************************************************************************)
(* IndexStore: init_index, update_index, list_packages                     *)
(***************************************************************************)
\* the condition under which init_index goes on to update_index
\* (app/pypi: service.init_index; app/package: the tail of init_index)
init_needs_update(which, index, clock) ==
    IF which = "pypi"
    THEN get_all_packages(index) = {} \/ is_index_expired(index.last, clock)
    ELSE index.remote = {} \/ is_index_expired(index.last, clock)

\* the condition under which list_packages calls init_index first
list_needs_init(which, index) ==
    IF which = "pypi" THEN get_all_packages(index) = {} ELSE index.remote = {}

\* update_index enters list_upstream_packages: the first fetch of the first mirror
begin_update(run) == [pc |-> "download", run |-> run, src |-> 1, retries |-> 0]

\* return sorted(local | remote)
list_packages(index) == sorted(list_of(get_all_packages(index)))

\* an update_remote_index that adds the new names to the old ones
update_remote_index_merging(index, packages, clock) ==
    [index EXCEPT !.remote = @ \cup packages, !.last = clock]

\* update_remote_index(packages): remote is replaced, the timestamp is set
update_remote_index(index, packages, clock) ==
    [index EXCEPT !.remote = packages, !.last = clock]

\* an update_index that lets the error of a failed snapshot write out to its
\* caller: the awaiting coroutine ends there
Resume_raising(t, index, updated, io) ==
    LET run == task[t].run
        ret == IF updated THEN "updated" ELSE "unchanged"
    IN /\ SetIndex(index)
       /\ IF io \in {"open_error", "write_error"}
          THEN /\ phase' = phase
               /\ task' = [task EXCEPT ![t] = IdleTask]
               /\ op' = Called("update_index", "raised", io)
          ELSE /\ phase' = IF run = "startup" THEN "serving" ELSE phase
               /\ IF run = "list_init" /\ is_index_expired(index.last, now)
                  THEN /\ task' = [task EXCEPT ![t] = begin_update("list_update")]
                       /\ op' = Called("update_index", ret, io)
                  ELSE /\ task' = [task EXCEPT ![t] = IdleTask]
                       /\ op' = IF run \in {"list_init", "list_update"}
                                THEN Called("list_packages", list_packages(index), io)
                                ELSE IF run = "startup" THEN Called("init_index", ret, io)
                                ELSE Called("update_index", ret, io)

\* update_index has finished in task t, leaving `index` in memory: control
\* returns to whoever awaited it
Resume(t, index, updated, io) ==
    LET run == task[t].run
        ret == IF updated THEN "updated" ELSE "unchanged"
    IN /\ SetIndex(index)
       /\ phase' = IF run = "startup" THEN "serving" ELSE phase
       /\ IF run = "list_init" /\ is_index_expired(index.last, now)
          \* back in list_packages, the index is (still) expired: update_index again
          THEN /\ task' = [task EXCEPT ![t] = begin_update("list_update")]
               /\ op' = Called("update_index", ret, io)
          ELSE /\ task' = [task EXCEPT ![t] = IdleTask]
               /\ op' = IF run \in {"list_init", "list_update"}
                        THEN Called("list_packages", list_packages(index), io)
                        ELSE IF run = "startup" THEN Called("init_index", ret, io)
                        ELSE Called("update_index", ret, io)

\* lifespan: await pypi_service.init_index(), then the scheduler is started
Startup ==
    /\ phase = "boot"
    /\ task["main"].pc = "idle"
    /\ LET index == load_index(impl, index_file, Memory) IN
       /\ SetIndex(index)
       /\ IF init_needs_update(impl, index, now)
          THEN /\ task' = [task EXCEPT !["main"] = begin_update("startup")]
               /\ phase' = phase
               /\ op' = Called("init_index", "updating", "-")
          ELSE /\ task' = task
               /\ phase' = "serving"
               /\ op' = Called("init_index", "loaded", "-")
    /\ UNCHANGED <<impl, versionVars, index_file, now>>
    /\ UNCHANGED cacheVars

\* list_packages up to its first await, or to its return when the index is fresh
ListPackages ==
    /\ phase = "serving"
    /\ task["main"].pc = "idle"
    /\ LET init == list_needs_init(impl, Memory)
           index == IF init THEN load_index(impl, index_file, Memory) ELSE Memory
       IN /\ SetIndex(index)
          /\ IF init /\ init_needs_update(impl, index, now)
             THEN /\ task' = [task EXCEPT !["main"] = begin_update("list_init")]
                  /\ op' = Called("init_index", "updating", "-")
             ELSE IF is_index_expired(index.last, now)
             THEN /\ task' = [task EXCEPT !["main"] = begin_update("list_update")]
                  /\ op' = Called("update_index", "updating", "-")
             ELSE /\ task' = task
                  /\ op' = Called("list_packages", list_packages(index), "-")
    /\ UNCHANGED <<impl, versionVars, index_file, now, phase>>
    /\ UNCHANGED cacheVars

\* the hourly scheduler job: refresh_index -> update_index
RefreshJob ==
    /\ phase = "serving"
    /\ task["job"].pc = "idle"
    /\ task' = [task EXCEPT !["job"] = begin_update("job")]
    /\ op' = Called("refresh_index", "updating", "-")
    /\ UNCHANGED <<impl, versionVars, local_index, remote_index, last_index_update, index_file, now, phase>>
    /\ UNCHANGED cacheVars

\* list_upstream_packages: a fetch of the listing page answers
UpstreamResponse(t, response, io) ==
    /\ task[t].pc = "download"
    /\ LET frame == task[t]
           packages == IF response.status = "ok" THEN sorted(link_strings(response.body)) ELSE <<>>
       IN IF response.status = "raise"
          \* except: retries += 1, sleep and retry, or give this mirror up
          THEN IF frame.retries + 1 < max_retries
               THEN /\ task' = [task EXCEPT ![t] = [frame EXCEPT !.pc = "sleep", !.retries = @ + 1]]
                    /\ op' = Called("list_upstream_packages", "retry", "-")
                    /\ UNCHANGED <<local_index, remote_index, last_index_update, index_file, phase>>
               ELSE IF frame.src < NumSources
               THEN /\ task' = [task EXCEPT ![t] = [frame EXCEPT !.src = @ + 1, !.retries = 0]]
                    /\ op' = Called("list_upstream_packages", "next", "-")
                    /\ UNCHANGED <<local_index, remote_index, last_index_update, index_file, phase>>
               \* return []: update_index leaves the index alone
               ELSE /\ Resume(t, Memory, FALSE, "-")
                    /\ UNCHANGED index_file
          ELSE IF response.status \in {"none", "empty"}
          \* no content and no exception: the while loop fetches again, retries unchanged
          THEN /\ op' = Called("list_upstream_packages", "again", "-")
               /\ UNCHANGED <<local_index, remote_index, last_index_update, index_file, phase, task>>
          ELSE IF packages = <<>>
          \* a page without package names: return [], the index is left alone
          THEN /\ Resume(t, Memory, FALSE, "-")
               /\ UNCHANGED index_file
          ELSE LET index == update_remote_index(Memory, Range(packages), now) IN
               /\ Resume(t, index, TRUE, io)
               /\ index_file' = save_index(impl, index, index_file, io)
    /\ UNCHANGED <<impl, versionVars, now>>
    /\ UNCHANGED cacheVars

\* asyncio.sleep(retry_delay) is over: the next attempt on the same mirror
RetryDelayOver(t) ==
    /\ task[t].pc = "sleep"
    /\ task' = [task EXCEPT ![t].pc = "download"]
    /\ op' = Called("list_upstream_packages", "attempt", "-")
    /\ UNCHANGED <<impl, versionVars, local_index, remote_index, last_index_update, index_file, now, phase>>
    /\ UNCHANGED cacheVars

(***************************************************************************)
(* Start of the process: nothing cached, no snapshot, empty index          *)
(***************************************************************************)
Init ==
    /\ impl \in Impls
    /\ files = [path \in StoragePaths |-> NoFile]
    /\ dirs = {}
    /\ get = [p \in Procs |-> IdleFrame]
    /\ fetched = [path \in StoragePaths |-> NoFile]
    /\ pypi_cache = [package_name \in RawNames |-> NoEntry]
    /\ lookup = [p \in Procs |-> IdleLookup]
    /\ local_index = {}
    /\ remote_index = {}
    /\ last_index_update = NoTime
    /\ index_file = NoSnapshot
    /\ now = 0
    /\ phase = "boot"
    /\ task = [t \in Tasks |-> IdleTask]
    /\ op = Called("__init__", NoResult, "-")

NextCache ==
    \/ \E p \in Procs, req \in Requests : GetPackage(p, req)
    \/ \E p \in Procs, index_content \in IndexResponses : IndexResponse(p, index_content)
    \/ \E p \in Procs, response \in FileResponses, storage \in StorageOutcomes :
          FileResponse(p, response, storage)
    \/ \E p \in Procs : ReleaseRequest(p)
    \/ \E package_name \in RawNames, version \in Versions,
          removed \in SUBSET StoragePaths, ok \in BOOLEAN :
          DeletePackage(package_name, version, removed, ok)

NextIndex ==
    \/ Startup
    \/ ListPackages
    \/ \E response \in UpstreamResponses, io \in SnapshotOutcomes :
          UpstreamResponse("main", response, io)
    \/ RetryDelayOver("main")
    \/ \E package_name \in PackageNames, io \in SnapshotOutcomes :
          UpdateLocalIndex(package_name, io)
    \/ \E package_name \in PackageNames, io \in SnapshotOutcomes :
          RemoveFromLocalIndex(package_name, io)
    \/ ClearIndex
    \/ GetIndexStatus
    \/ Tick
    \/ Restart

\* the artifact cache alone
SpecCache == Init /\ [][NextCache]_vars

\* the package index alone, as driven by start-up and by requests
SpecIndex == Init /\ [][NextIndex]_vars

(***************************************************************************)
(* Properties of the artifact cache (SpecCache)                            *)
(***************************************************************************)
Last(seq) == seq[Len(seq)]
Missed(frame) == frame.pc = "done" /\ frame.start = NoFile
Hit(frame) == frame.pc = "done" /\ frame.start # NoFile

\* C2: a get_package call that finds a file at the storage path of its
\* (normalized name, version, normalized filename) returns that file's bytes
\* and goes through no mirror: it never waits on the transport.
CacheHitSkipsNetwork ==
    \A p \in Procs :
        get[p].start # NoFile =>
            /\ get[p].pc = "done"
            /\ get[p].result = Bytes(get[p].start)
            /\ get[p].tried = <<>>
            /\ get[p].url = NoUrl

\* a request spelled A_b was answered from the file stored for a-b
CacheHitReached ==
    \E p \in Procs :
        /\ Hit(get[p])
        /\ get[p].result.kind = "bytes"
        /\ get[p].req.package_name # normalize_package_name(get[p].req.package_name)

FallbackOrder ==
    \A p \in Procs :
        LET frame == get[p] IN
        /\ \A i \in 1..Len(frame.tried) : frame.tried[i].mirror = i
        /\ \A i \in 1..(Len(frame.tried) - 1) : frame.tried[i].got = "fail"
        /\ frame.pc \in {"await_index", "await_file"} =>
              /\ Len(frame.tried) = frame.src
              /\ Last(frame.tried).got = "pending"
              /\ frame.url.source = frame.src
        /\ (Missed(frame) /\ frame.result.kind = "bytes") =>
              /\ Last(frame.tried).got = "ok"
              /\ Last(frame.tried).data = frame.result.data
        /\ (Missed(frame) /\ frame.tried # <<>> /\ Last(frame.tried).got = "fail") =>
              Len(frame.tried) = NumSources

\* the first mirror failed, the second delivered, the third was not contacted
SecondMirrorServed ==
    \E p \in Procs :
        /\ Missed(get[p])
        /\ get[p].result.kind = "bytes"
        /\ Len(get[p].tried) = 2
        /\ get[p].tried[1].got = "fail"
        /\ NumSources > 2

\* C5: a miss on which every mirror fails ends in HTTP 404 naming the package
\* and the version and returns no bytes, and a 404 is only produced when all
\* configured mirrors have been tried and have failed.
NotFoundAfterAllMirrors ==
    \A p \in Procs :
        LET frame == get[p] IN
        /\ frame.result.kind = "404" =>
              /\ Missed(frame)
              /\ {frame.tried[i].mirror : i \in 1..Len(frame.tried)} = Sources
              /\ \A i \in 1..Len(frame.tried) : frame.tried[i].got = "fail"
              /\ frame.result = NotFound(frame.req.package_name, frame.req.version)
        /\ (Missed(frame) /\ \A i \in 1..Len(frame.tried) : frame.tried[i].got = "fail") =>
              frame.result.kind = "404"

\* a request ended in 404 after the last mirror failed
NotFoundReached ==
    \E p \in Procs :
        /\ Missed(get[p])
        /\ get[p].result.kind = "404"
        /\ Len(get[p].tried) = NumSources

\* C6: while the file is absent, at most one artifact fetch is in flight for
\* a cache key: two get_package calls for the same key never both wait on a
\* file download.
SingleFlightPerKey ==
    \A p, q \in Procs :
        (p # q /\ get[p].pc = "await_file" /\ get[q].pc = "await_file")
            => PathOf(get[p].req) # PathOf(get[q].req)

(***************************************************************************)
(* Properties of the package index (SpecIndex)                             *)
(***************************************************************************)
Stale == last_index_update = NoTime \/ now > last_index_update + cache_ttl

\* the snapshot file holds exactly what is in memory
SnapshotMatchesMemory ==
    /\ index_file.kind = "json"
    /\ Range(index_file.local_packages) = local_index
    /\ Range(index_file.remote_packages) = remote_index
    /\ IF last_index_update = NoTime
       THEN index_file.last_update = JsonNull
       ELSE index_file.last_update = isoformat(last_index_update)

\* C1: whatever operations came before, the list that list_packages returns
\* is strictly ascending (sorted, no duplicates) and holds exactly the names
\* of local_index and remote_index.
ListIsSortedUnion ==
    op.name = "list_packages" =>
        /\ \A i, j \in 1..Len(op.ret) : i < j => str_less(op.ret[i], op.ret[j])
        /\ Range(op.ret) = local_index \cup remote_index

\* local = {foo}, remote = {bar, foo} is listed as [bar, foo]
ListOfFooBar ==
    /\ op.name = "list_packages"
    /\ local_index = {<<"f", "o", "o">>}
    /\ remote_index = {<<"b", "a", "r">>, <<"f", "o", "o">>}
    /\ op.ret = << <<"b", "a", "r">>, <<"f", "o", "o">> >>

\* C7: the index is expired exactly when it has no timestamp or the clock is
\* past last_index_update + ttl: a new index is expired, the index is not
\* expired right after remote was replaced, and get_index_status reports it.
StalenessRule ==
    /\ is_index_expired(last_index_update, now) <=> Stale
    /\ op.name = "get_index_status" => (op.ret.is_expired <=> Stale)
    /\ op.name = "__init__" => is_index_expired(last_index_update, now)
    /\ (op.io # "-" /\ op.name \notin {"update_local_index", "remove_from_local_index"}) =>
          /\ last_index_update = now
          /\ ~is_index_expired(last_index_update, now)

\* the status is asked exactly ttl after the refresh: not yet expired
FreshAtTtl ==
    /\ op.name = "get_index_status"
    /\ last_index_update # NoTime
    /\ now = last_index_update + cache_ttl
    /\ ~op.ret.is_expired

\* C8: saving the index and loading the file into a new instance gives back
\* the same local set, remote set and timestamp, also with no timestamp and
\* with empty sets.
SnapshotRoundTrip ==
    load_index(impl, save_index(impl, Memory, index_file, "ok"), EmptyIndex) = Memory

\* C9: when update_local_index, remove_from_local_index or the replacement of
\* remote has run with a writable snapshot file, the file holds the local set,
\* the remote set and the timestamp that are in memory, also before the first
\* refresh.
SnapshotFollowsMutation ==
    op.io = "ok" => SnapshotMatchesMemory

\* C10: after clear_index both sets are empty, there is no timestamp and no
\* snapshot file, the index is expired and lists no package, whether or not a
\* snapshot file existed.
ClearEmptiesEverything ==
    op.name = "clear_index" =>
        /\ local_index = {}
        /\ remote_index = {}
        /\ last_index_update = NoTime
        /\ index_file = NoSnapshot
        /\ is_index_expired(last_index_update, now)
        /\ list_packages(Memory) = <<>>

\* clear_index has removed an existing snapshot
ClearedWithSnapshot ==
    /\ op.name = "clear_index"
    /\ op.ret.unlinked
    /\ index_file = NoSnapshot
    /\ local_index \cup remote_index = {}

(***************************************************************************)
(* The package index under a fair scheduler (SpecIndexFair)                *)
(***************************************************************************)
\* the event loop runs every coroutine that can go on: a pending fetch of the
\* listing page is answered (with whatever the transport gives) and a retry
\* delay ends
SpecIndexFair ==
    /\ SpecIndex
    /\ WF_vars(\E response \in UpstreamResponses, io \in SnapshotOutcomes :
                  UpstreamResponse("main", response, io))
    /\ WF_vars(RetryDelayOver("main"))

\* C11: every run of list_upstream_packages comes to an end, whatever the
\* transport does: a coroutine that has entered the mirror loop eventually
\* leaves it and its caller returns.
UpstreamListingTerminates ==
    (task["main"].pc # "idle") ~> (task["main"].pc = "idle")

(***************************************************************************)
(* Refresh outcomes (SpecIndex)                                            *)
(***************************************************************************)
\* C12: when update_index gets the empty list from list_upstream_packages
\* (every mirror is exhausted, or the page holds no names) it returns leaving
\* local_index, remote_index, last_index_update and the snapshot file as they
\* were.
NoUpdateRetainsIndex ==
    [][(/\ task["main"].pc = "download"
        /\ op'.name \in {"init_index", "update_index", "list_packages"}
        /\ op'.io = "-")
          => UNCHANGED <<local_index, remote_index, last_index_update, index_file>>]_vars

\* a restarted service loaded an expired snapshot, every mirror failed, and
\* the loaded index is still there
RetainedAfterFailedUpdate ==
    /\ op.name = "init_index"
    /\ op.ret = "unchanged"
    /\ remote_index # {}
    /\ last_index_update # NoTime
    /\ SnapshotMatchesMemory

\* C13: update_index never hands an error to its caller.  Whatever the
\* transport returns and whether or not the snapshot write fails, init_index
\* and update_index return normally: start-up goes on to serve and a list
\* request goes on to its next step (the second refresh or the listing).
UpdateIndexNeverRaises ==
    /\ [](op.name \in {"init_index", "update_index"}
             => op.ret \in {"updating", "loaded", "updated", "unchanged"})
    /\ [][(/\ task["main"].pc = "download"
           /\ op'.name \in {"init_index", "update_index", "list_packages"})
             => /\ task["main"].run = "startup"
                    => (phase' = "serving" /\ op'.name = "init_index")
                /\ task["main"].run \in {"list_init", "list_update"}
                    => (op'.name = "list_packages" \/ task'["main"].pc = "download")]_vars

\* start-up finished although the snapshot write failed half-way
StartupSurvivedFailedWrite ==
    /\ op.name = "init_index"
    /\ op.ret = "updated"
    /\ op.io = "write_error"
    /\ phase = "serving"
    /\ index_file = Garbage
    /\ remote_index # {}

(***************************************************************************)
(* List requests next to the hourly job (SpecRefresh)                      *)
(***************************************************************************)
NextRefresh ==
    \/ Startup
    \/ ListPackages
    \/ RefreshJob
    \/ \E t \in Tasks, response \in UpstreamResponses, io \in SnapshotOutcomes :
          UpstreamResponse(t, response, io)
    \/ \E t \in Tasks : RetryDelayOver(t)
    \/ Tick

\* start-up, list requests and the scheduler job on one event loop
SpecRefresh == Init /\ [][NextRefresh]_vars

\* C14: at no time are two runs of update_index in progress: the one awaited
\* by start-up or by a list request and the one of the hourly job never both
\* sit in list_upstream_packages.
RefreshesNeverOverlap ==
    ~(task["main"].pc # "idle" /\ task["job"].pc # "idle")

(***************************************************************************)
(* Snapshot file (SpecIndex)                                               *)
(***************************************************************************)
\* C15: package_index.json is never seen empty or partially written: at
\* every moment, also after a save that failed in the middle of the write, it
\* is absent or holds a complete snapshot.
SnapshotNeverPartial ==
    index_file # Garbage

(***************************************************************************)
(* delete_package next to the index (SpecDelete)                           *)
(***************************************************************************)
\* a delete_package that reports success for a directory that is not there
delete_result_careless(which, exists, ok) ==
    IF ~exists THEN "true"
    ELSE IF which = "pypi" THEN (IF ok THEN "true" ELSE "false")
    ELSE "raised"

\* what delete_package gives its caller.  app/pypi: False when the version
\* directory is missing or the removal raised, True otherwise.  app/package:
\* False when the path is missing; on a directory os.remove raises and the
\* error leaves delete_package.
delete_result(which, exists, ok) ==
    IF ~exists THEN "false"
    ELSE IF which = "pypi" THEN (IF ok THEN "true" ELSE "false")
    ELSE "raised"

\* delete_package(package_name, version) of the running copy, whole: the
\* existence test, the removal and the return value.  app/package builds the
\* path from the name as given and changes nothing when os.remove raises.
DeleteRequest(package_name, version, removed, ok) ==
    LET package_dir == IF impl = "pypi"
                       THEN <<normalize_package_name(package_name), version>>
                       ELSE <<package_name, version>>
        exists == package_dir \in dirs
    IN /\ phase = "serving"
       /\ IF impl = "pypi" /\ exists
          THEN delete_package_pypi(package_name, version, removed, ok)
          ELSE /\ removed = {}
               /\ ok
               /\ UNCHANGED <<files, dirs, fetched>>
       /\ op' = Called("delete_package",
                       [package |-> package_name, version |-> version,
                        returned |-> delete_result(impl, exists, ok)], "-")
       /\ UNCHANGED <<impl, versionVars, get>>
       /\ UNCHANGED indexVars

\* a get_package request that arrives once the lifespan has started the app
ServedGetPackage(p, req) ==
    /\ phase = "serving"
    /\ GetPackage(p, req)

NextDelete ==
    \/ Startup
    \/ \E response \in UpstreamResponses, io \in SnapshotOutcomes :
          UpstreamResponse("main", response, io)
    \/ RetryDelayOver("main")
    \/ \E req \in Requests :
          UpdateLocalIndex(normalize_package_name(req.package_name), "ok")
    \/ \E req \in Requests : ServedGetPackage(1, req)
    \/ \E index_content \in IndexResponses : IndexResponse(1, index_content)
    \/ \E response \in FileResponses, storage \in StorageOutcomes :
          FileResponse(1, response, storage)
    \/ ReleaseRequest(1)
    \/ \E package_name \in RawNames, version \in Versions,
          removed \in SUBSET StoragePaths, ok \in BOOLEAN :
          DeleteRequest(package_name, version, removed, ok)

\* one client that fetches, registers and deletes artifacts
SpecDelete == Init /\ [][NextDelete]_vars

\* the step is a delete_package call (its record is new in op)
DeleteStep ==
    /\ op'.name = "delete_package"
    /\ (op.name # "delete_package" \/ op.ret # op'.ret)

\* C16: when delete_package returns True the version directory and its files
\* are gone, and if the package has no version directory left its directory
\* is gone too and its name is not in local_index any more.
DeleteRemovesPackage ==
    [][(DeleteStep /\ op'.ret.returned = "true") =>
          LET name == normalize_package_name(op'.ret.package)
              package_dir == <<name, op'.ret.version>>
          IN /\ package_dir \notin dirs'
             /\ FilesIn(files', package_dir) = {}
             /\ VersionDirsIn(dirs', name) = {} =>
                   /\ <<name>> \notin dirs'
                   /\ name \notin local_index'
                   /\ op'.ret.package \notin local_index']_vars

\* C17: delete_package for a version directory that does not exist returns
\* False and leaves the artifact tree, local_index, remote_index,
\* last_index_update and the snapshot file as they were.
DeleteMissingIsNoop ==
    [][(DeleteStep /\ <<normalize_package_name(op'.ret.package), op'.ret.version>> \notin dirs)
          => /\ op'.ret.returned = "false"
             /\ UNCHANGED <<files, dirs, local_index, remote_index,
                            last_index_update, index_file>>]_vars

\* a delete of a version that is not cached returned False while another
\* version is cached and the package is in local_index
DeleteOfMissingVersion ==
    /\ op.name = "delete_package"
    /\ op.ret.returned = "false"
    /\ <<normalize_package_name(op.ret.package), op.ret.version>> \notin dirs
    /\ VersionDirsIn(dirs, normalize_package_name(op.ret.package)) # {}
    /\ normalize_package_name(op.ret.package) \in local_index
    /\ index_file # NoSnapshot

(***************************************************************************)
(* NameNormalizer on its own (SpecNormalize)                               *)
(***************************************************************************)
MaxLen == 3     \* longest input string

\* printable ASCII as far as the normalizers tell characters apart: an
\* upper-case and a lower-case letter, the separators they rewrite, the dot
\* that rsplit looks for, and two characters that quote() escapes
Alphabet == {"A", "b", "_", "-", " ", "%", "."}
Strings == UNION {[1..n -> Alphabet] : n \in 0..MaxLen}

\* a function applied once and applied to its own result
Applied(name, x, once, twice) ==
    Called(name, [arg |-> x, once |-> once, twice |-> twice], "-")

InitNormalize ==
    /\ impl \in Impls
    /\ files = [path \in StoragePaths |-> NoFile]
    /\ dirs = {}
    /\ get = [p \in Procs |-> IdleFrame]
    /\ fetched = [path \in StoragePaths |-> NoFile]
    /\ pypi_cache = [package_name \in RawNames |-> NoEntry]
    /\ lookup = [p \in Procs |-> IdleLookup]
    /\ local_index = {}
    /\ remote_index = {}
    /\ last_index_update = NoTime
    /\ index_file = NoSnapshot
    /\ now = 0
    /\ phase = "boot"
    /\ task = [t \in Tasks |-> IdleTask]
    /\ \E x \in Strings : op = Called("input", x, "-")

NormalizeName ==
    /\ op.name = "input"
    /\ op' = Applied("normalize_package_name", op.ret,
                     normalize_package_name(op.ret),
                     normalize_package_name(normalize_package_name(op.ret)))
    /\ UNCHANGED <<impl, versionVars, cacheVars, indexVars>>

NormalizePath ==
    /\ op.name = "input"
    /\ op' = Applied("normalize_package_path", op.ret,
                     normalize_package_path(op.ret),
                     normalize_package_path(normalize_package_path(op.ret)))
    /\ UNCHANGED <<impl, versionVars, cacheVars, indexVars>>

NormalizeFilename ==
    /\ op.name = "input"
    /\ op' = Applied("normalize_filename", op.ret,
                     normalize_filename(op.ret),
                     normalize_filename(normalize_filename(op.ret)))
    /\ UNCHANGED <<impl, versionVars, cacheVars, indexVars>>

NextNormalize == NormalizeName \/ NormalizePath \/ NormalizeFilename

SpecNormalize == InitNormalize /\ [][NextNormalize]_vars

\* C18: normalize_package_name, normalize_package_path and normalize_filename
\* are idempotent: applied to their own result they return that result.
NormalizationIdempotent ==
    op.name \in {"normalize_package_name", "normalize_package_path", "normalize_filename"}
        => op.ret.twice = op.ret.once

(***************************************************************************)
(* Cache identity and storage failures (SpecCache)                         *)
(***************************************************************************)
\* two requests for the same cache entry
SameKey(r1, r2) ==
    /\ normalize_package_name(r1.package_name) = normalize_package_name(r2.package_name)
    /\ normalize_filename(r1.filename) = normalize_filename(r2.filename)
    /\ r1.version = r2.version

\* C19: requests whose names and filenames normalize alike and whose versions
\* are equal use one storage path, normalized name / version / normalized
\* filename, so what was stored through one spelling is found through the
\* other; requests with different versions use different paths.
CacheIdentityFollowsNormalization ==
    /\ \A r1, r2 \in Requests :
          /\ SameKey(r1, r2) => PathOf(r1) = PathOf(r2)
          /\ r1.version # r2.version => PathOf(r1) # PathOf(r2)
          /\ PathOf(r1) = <<normalize_package_name(r1.package_name), r1.version,
                            normalize_filename(r1.filename)>>
          /\ (SameKey(r1, r2) /\ fetched[PathOf(r1)] # NoFile)
                => cached_bytes(files, PathOf(r2)) = fetched[PathOf(r1)]
    /\ \A p \in Procs, r \in Requests :
          (get[p].pc # "idle" /\ SameKey(get[p].req, r) /\ Hit(get[p]))
              => get[p].start \in Contents /\ get[p].result = Bytes(get[p].start)

\* one client fetched and stored the artifact under one spelling, another got
\* it from the cache under a different spelling of the same package
SpellingsShareEntry ==
    \E p, q \in Procs :
        /\ Missed(get[p])
        /\ get[p].result.kind = "bytes"
        /\ Hit(get[q])
        /\ get[q].req.package_name # get[p].req.package_name
        /\ SameKey(get[p].req, get[q].req)
        /\ get[q].result = get[p].result

\* C20: a get_package whose mirror delivered a non-empty payload returns that
\* payload to its caller, also when storing it failed.
DeliveredBytesAreReturned ==
    \A p \in Procs :
        (get[p].pc = "done" /\ get[p].tried # <<>> /\ Last(get[p].tried).got = "ok")
            => /\ get[p].result.kind = "bytes"
               /\ get[p].result.data = Last(get[p].tried).data

(***************************************************************************)
(* List requests under a fair scheduler (SpecIndexFair)                    *)
(***************************************************************************)
\* C21: a list request always comes back with a list, whatever the mirrors
\* do and whatever the index held: a list_packages call that is waiting for
\* update_index eventually returns its listing (or the process is restarted
\* under it).
ListRequestCompletes ==
    (task["main"].run \in {"list_init", "list_update"})
        ~> (op.name = "list_packages" \/ phase = "boot")

(***************************************************************************)
(* The mirror loop of list_upstream_packages (SpecIndex)                   *)
(***************************************************************************)
\* C22: every attempt that brings no listing uses up one of the max_retries
\* attempts of its mirror, whether the transport raised or returned absent or
\* empty content: after such an answer the coroutine either waits the retry
\* delay with one more attempt counted, or has moved on to the next mirror,
\* or has left the loop; and no mirror is fetched with max_retries attempts
\* already counted.
RetryCeiling ==
    /\ [](\A t \in Tasks : task[t].retries < max_retries)
    /\ [][(/\ task["main"].pc = "download"
           /\ op'.name = "list_upstream_packages")
             => \/ /\ task'["main"].pc = "sleep"
                   /\ task'["main"].src = task["main"].src
                   /\ task'["main"].retries = task["main"].retries + 1
                \/ /\ task'["main"].pc = "download"
                   /\ task'["main"].src = task["main"].src + 1
                   /\ task'["main"].retries = 0
                   /\ task["main"].retries + 1 = max_retries]_vars

(***************************************************************************)
(* Refresh from single-name listings (SpecListing)                         *)
(***************************************************************************)
\* listing pages with one package each, so that a replaced remote set can be
\* told from a merged one
SingleNamePages == {
    << <<"f", "o", "o">> >>,
    << <<"b", "a", "r">>, <<>>, <<"b", "a", "r">> >> }
SingleNameResponses ==
    {Response(status, <<>>) : status \in TransportFailures}
        \cup {Response("ok", page) : page \in SingleNamePages}

NextListing ==
    \/ Startup
    \/ ListPackages
    \/ \E response \in SingleNameResponses, io \in SnapshotOutcomes :
          UpstreamResponse("main", response, io)
    \/ RetryDelayOver("main")
    \/ \E package_name \in PackageNames, io \in SnapshotOutcomes :
          UpdateLocalIndex(package_name, io)
    \/ Tick
    \/ Restart

\* start-up and list requests against mirrors that serve single-name pages
SpecListing == Init /\ [][NextListing]_vars

\* C23: the first mirror that answers with content decides the listing: the
\* run of update_index that took its names ends there (no later mirror is
\* fetched), remote_index becomes exactly the set of non-empty anchor texts
\* of that one page, whatever it held before, the timestamp is the current
\* time and local_index is not touched.
FirstMirrorWithContentWins ==
    [][(/\ task["main"].pc = "download"
        /\ op'.name \in {"init_index", "update_index", "list_packages"}
        /\ op'.io # "-")
          => /\ \E page \in SingleNamePages :
                   remote_index' = {page[i] : i \in {j \in DOMAIN page : page[j] # <<>>}}
             /\ last_index_update' = now
             /\ local_index' = local_index
             /\ task'["main"] = IdleTask]_vars

\* a refresh replaced the remote set {foo} by {bar}; the snapshot, whose
\* write failed at open(), still holds the old one
RemoteReplacedByOnePage ==
    /\ op.name = "list_packages"
    /\ op.io = "open_error"
    /\ remote_index = {<<"b", "a", "r">>}
    /\ index_file.kind = "json"
    /\ Range(index_file.remote_packages) = {<<"f", "o", "o">>}

(***************************************************************************)
(* The index route GET /pypi/simple (SpecSimple)                           *)
(***************************************************************************)
\* get_simple_index: app/pypi answers with index_manager.list_packages(),
\* the sorted names held in memory; app/package awaits the list_packages of
\* its service
GetSimpleIndex ==
    IF impl = "pypi"
    THEN /\ phase = "serving"
         /\ op' = Called("get_simple_index", list_packages(Memory), "-")
         /\ UNCHANGED <<impl, versionVars, local_index, remote_index, last_index_update,
                        index_file, now, phase, task>>
         /\ UNCHANGED cacheVars
    ELSE ListPackages

NextSimple ==
    \/ Startup
    \/ GetSimpleIndex
    \/ \E response \in UpstreamResponses, io \in SnapshotOutcomes :
          UpstreamResponse("main", response, io)
    \/ RetryDelayOver("main")
    \/ \E package_name \in PackageNames, io \in SnapshotOutcomes :
          UpdateLocalIndex(package_name, io)
    \/ Tick
    \/ Restart

\* start-up and requests for the package index, as the routes serve them
SpecSimple == Init /\ [][NextSimple]_vars

\* C24: a request for the package index on a fresh index is answered at once
\* from memory, with the sorted names of local_index and remote_index and
\* without any fetch; on a stale index it goes into update_index before it
\* is answered.  When that refresh took a listing, the answer is made of the
\* new remote set, the timestamp is the current time, and a snapshot write
\* that succeeded has put exactly this index on disk before the answer.
ListFreshOrStale ==
    /\ [][(/\ phase = "serving"
           /\ task["main"].pc = "idle"
           /\ op'.name \in {"get_simple_index", "list_packages",
                            "init_index", "update_index"})
             => IF is_index_expired(last_index_update, now)
                THEN /\ op'.name \in {"init_index", "update_index"}
                     /\ task'["main"].pc = "download"
                ELSE /\ op'.name \in {"get_simple_index", "list_packages"}
                     /\ Range(op'.ret) = local_index \cup remote_index
                     /\ op'.ret = sorted(op'.ret)
                     /\ UNCHANGED <<task, local_index, remote_index,
                                    last_index_update, index_file>>]_vars
    /\ [][(/\ task["main"].pc = "download"
           /\ op'.name = "list_packages"
           /\ op'.io # "-")
             => /\ Range(op'.ret) = local_index' \cup remote_index'
                /\ remote_index' # {}
                /\ last_index_update' = now
                /\ op'.io = "ok" =>
                      index_file' = cache_data(Index(local_index', remote_index',
                                                      last_index_update'))]_vars

(***************************************************************************)
(* Loading whatever snapshot is found on disk (SpecLoad)                   *)
(***************************************************************************)
\* the package_index.json a starting process may find: none, a file that is
\* not JSON, or a JSON object whose last_update is a date, null or a string
\* that is not a date
SnapshotFiles ==
    {NoSnapshot, Garbage}
        \cup {[kind |-> "json", last_update |-> u, local_packages |-> l, remote_packages |-> r] :
                u \in {isoformat(0), JsonNull, NotADate},
                l \in {<<>>, << <<"b", "a", "r">> >>},
                r \in {<<>>, << <<"f", "o", "o">> >>}}

InitLoad ==
    /\ impl \in Impls
    /\ files = [path \in StoragePaths |-> NoFile]
    /\ dirs = {}
    /\ get = [p \in Procs |-> IdleFrame]
    /\ fetched = [path \in StoragePaths |-> NoFile]
    /\ pypi_cache = [package_name \in RawNames |-> NoEntry]
    /\ lookup = [p \in Procs |-> IdleLookup]
    /\ local_index = {}
    /\ remote_index = {}
    /\ last_index_update = NoTime
    /\ index_file \in SnapshotFiles
    /\ now = 0
    /\ phase = "boot"
    /\ task = [t \in Tasks |-> IdleTask]
    /\ op = Called("__init__", NoResult, "-")

NextLoad ==
    \/ Startup
    \/ \E response \in UpstreamResponses, io \in SnapshotOutcomes :
          UpstreamResponse("main", response, io)
    \/ RetryDelayOver("main")
    \/ Tick
    \/ Restart

\* a process that starts on any snapshot file
SpecLoad == InitLoad /\ [][NextLoad]_vars

\* the load of init_index stops on an exception: the file is not JSON, or
\* its last_update cannot be turned into a datetime
LoadFails(which, file) ==
    \/ file = Garbage
    \/ /\ file.kind = "json"
       /\ \/ file.last_update = NotADate
          \/ which = "package" /\ file.last_update = JsonNull

\* C25: when the load of the snapshot fails, init_index returns with
\* local_index, remote_index and last_index_update as they were before the
\* load (empty, in a process that has just started): no field has taken a
\* value from the file.
FailedLoadLeavesIndexUntouched ==
    (/\ op.name = "init_index"
     /\ op.ret \in {"updating", "loaded"}
     /\ LoadFails(impl, index_file))
        => Memory = EmptyIndex

(***************************************************************************)
(* Failed snapshot writes (SpecIndex)                                      *)
(***************************************************************************)
\* C26: a snapshot write that fails is swallowed and the change made in
\* memory stays: after update_local_index, remove_from_local_index or a
\* refresh whose write failed, the call has returned normally, the name is
\* in (or out of) local_index, or remote_index holds the new listing with
\* the timestamp set to the current time, and the index is not expired.
FailedWriteKeepsMutation ==
    [][(op'.io \in {"open_error", "write_error"})
         => /\ op'.name = "update_local_index" =>
                 /\ \E package_name \in PackageNames :
                       local_index' = local_index \cup {package_name}
                 /\ local_index' # {}
                 /\ local_index' \subseteq get_all_packages(Index(local_index', remote_index', last_index_update'))
                 /\ UNCHANGED <<remote_index, last_index_update>>
            /\ op'.name = "remove_from_local_index" =>
                 /\ \E package_name \in PackageNames :
                       /\ local_index' = local_index \ {package_name}
                       /\ package_name \notin local_index'
                 /\ local_index' # PackageNames
                 /\ UNCHANGED <<remote_index, last_index_update>>
            /\ op'.name \in {"init_index", "update_index", "list_packages"} =>
                 /\ op'.name \in {"init_index", "update_index"} => op'.ret = "updated"
                 /\ remote_index' # {}
                 /\ last_index_update' = now
                 /\ ~is_index_expired(last_index_update', now')
                 /\ local_index' = local_index]_vars

\* a name was added to local_index although the snapshot write broke off,
\* leaving a truncated file
AddedDespiteFailedWrite ==
    /\ op.name = "update_local_index"
    /\ op.io = "write_error"
    /\ index_file = Garbage
    /\ local_index = PackageNames
    /\ remote_index = {}

(***************************************************************************)
(* Link selection on a simple mirror (SpecCache)                           *)
(***************************************************************************)
\* an anchor whose text, underscores turned to hyphens, is not empty and
\* holds the normalized file name
LinkMatches(link, filename) ==
    /\ link.text # <<>>
    /\ str_contains(str_replace(link.text, "_", "-"), normalize_filename(filename))

\* the href of the first matching anchor of each page that has one
FirstMatchingHrefs(filename) ==
    UNION {{page[i].href : i \in {k \in DOMAIN page :
                                     /\ LinkMatches(page[k], filename)
                                     /\ \A j \in 1..(k - 1) : ~LinkMatches(page[j], filename)}}
             : page \in ListingPages}

\* C27: on a simple mirror the answer to the fetch of the per-package page
\* either leads to the fetch of the href of the first anchor, in document
\* order, whose text contains the normalized file name, on the same mirror,
\* or to no artifact fetch on that mirror at all (the next mirror is tried
\* or the request ends).
SimpleMirrorTakesFirstMatch ==
    [][\A p \in Procs :
          (get[p].pc = "await_index" /\ get'[p] # get[p])
             => \/ /\ get'[p].pc = "await_file"
                   /\ get'[p].src = get[p].src
                   /\ get'[p].url.source = get[p].src
                   /\ Len(get'[p].url.ref) = 2
                   /\ get'[p].url.ref[1] = "href"
                   /\ get'[p].url.ref[2] # ""
                   /\ get'[p].url.ref[2] \in FirstMatchingHrefs(get[p].req.filename)
                \/ get'[p].src = get[p].src + 1
                \/ /\ get'[p].pc = "done"
                   /\ get'[p].result.kind = "404"]_vars

\* the third mirror, a simple one, is asked for the file behind the first
\* matching link of its page after the first two mirrors gave nothing
FirstMatchFetched ==
    \E p \in Procs :
        /\ get[p].pc = "await_file"
        /\ get[p].src = 3
        /\ is_simple(get[p].src)
        /\ get[p].url.ref = <<"href", "u2">>

(***************************************************************************)
(* What the normalizers rewrite (SpecNormalize)                            *)
(***************************************************************************)
\* C28: normalize_package_name lower-cases its argument and puts a single
\* hyphen in place of every maximal run of underscores and spaces: the
\* result has one character for each character outside such a run and one
\* hyphen for each run, in the order of the argument ("a__b" gives "a-b");
\* it is defined on every string and gives "" on "".
NameRunsCollapse ==
    op.name = "normalize_package_name" =>
        LET x == op.ret.arg
            separator(c) == c \in {"_", " "}
            kept == {i \in 1..Len(x) : ~(separator(x[i]) /\ i > 1 /\ separator(x[i - 1]))}
            place(i) == Cardinality({j \in kept : j <= i})
        IN /\ Len(op.ret.once) = Cardinality(kept)
           /\ \A i \in kept :
                 op.ret.once[place(i)] = IF separator(x[i]) THEN "-" ELSE lower_char(x[i])

\* C29: normalize_filename takes the last two dot-delimited segments as the
\* extensions, turns underscores and spaces of the base (of the whole name
\* when there is no dot) into hyphens, leaves the extensions and the letter
\* case alone, and percent-encodes the result.
FilenameBaseHyphenated ==
    op.name = "normalize_filename" =>
        LET x == op.ret.arg
            d1 == str_rfind(x, ".", Len(x))
            d2 == IF d1 = 0 THEN 0 ELSE str_rfind(x, ".", d1 - 1)
            cut == IF d2 > 0 THEN d2 ELSE d1
            hyphenated(s) == str_replace(str_replace(s, "_", "-"), " ", "-")
        IN op.ret.once =
              IF cut = 0 THEN quote(hyphenated(x))
              ELSE quote(hyphenated(SubSeq(x, 1, cut - 1)) \o SubSeq(x, cut, Len(x)))

(***************************************************************************)
(* The hourly job under a fair scheduler (SpecRefreshFair)                 *)
(***************************************************************************)
\* the last mirror is asked by the job and answers with a listing
LastMirrorAnswers ==
    /\ task["job"].src = NumSources
    /\ \E page \in UpstreamPages :
          /\ link_strings(page) # <<>>
          /\ UpstreamResponse("job", Response("ok", page), "ok")

\* the scheduler fires the job on every interval, the event loop answers its
\* fetches and ends its retry delays, and the last mirror is healthy: when
\* it is asked again and again it sooner or later serves its listing
SpecRefreshFair ==
    /\ SpecRefresh
    /\ WF_vars(RefreshJob)
    /\ WF_vars(\E response \in UpstreamResponses, io \in SnapshotOutcomes :
                  UpstreamResponse("job", response, io))
    /\ WF_vars(RetryDelayOver("job"))
    /\ SF_vars(LastMirrorAnswers)

\* C30: with the job firing on every interval and a mirror that serves a
\* listing, a stale index of a serving process does not stay stale: it is
\* followed by a state in which the index is not expired and remote_index
\* holds a listing, with no list request needed for it.
RefreshEventuallySucceeds ==
    (phase = "serving" /\ Stale) ~> (~Stale /\ remote_index # {})

(***************************************************************************)
(* PyPICache: the index fields kept by the cache object (SpecPyPICache)    *)
(***************************************************************************)
\* PyPICache(): _local_index, _remote_index and _index_last_updated are held
\* in local_index, remote_index and last_index_update
InitPyPICache ==
    /\ impl = "cache"
    /\ files = [path \in StoragePaths |-> NoFile]
    /\ dirs = {}
    /\ get = [p \in Procs |-> IdleFrame]
    /\ fetched = [path \in StoragePaths |-> NoFile]
    /\ pypi_cache = [package_name \in RawNames |-> NoEntry]
    /\ lookup = [p \in Procs |-> IdleLookup]
    /\ local_index = {}
    /\ remote_index = {}
    /\ last_index_update = NoTime
    /\ index_file = NoSnapshot
    /\ now = 0
    /\ phase = "serving"
    /\ task = [t \in Tasks |-> IdleTask]
    /\ op = Called("__init__", NoResult, "-")

\* PyPICache.update_local_index(packages)
CacheUpdateLocalIndex(packages) ==
    /\ SetIndex(Index(packages, remote_index, now))
    /\ op' = Called("update_local_index", NoResult, "-")
    /\ UNCHANGED <<impl, versionVars, index_file, now, phase, task>>
    /\ UNCHANGED cacheVars

\* PyPICache.update_remote_index(packages)
CacheUpdateRemoteIndex(packages) ==
    /\ SetIndex(Index(local_index, packages, now))
    /\ op' = Called("update_remote_index", NoResult, "-")
    /\ UNCHANGED <<impl, versionVars, index_file, now, phase, task>>
    /\ UNCHANGED cacheVars

\* PyPICache.get_merged_index()
CacheGetMergedIndex ==
    /\ op' = Called("get_merged_index", list_packages(Memory), "-")
    /\ UNCHANGED <<impl, versionVars, local_index, remote_index, last_index_update, index_file,
                   now, phase, task>>
    /\ UNCHANGED cacheVars

\* PyPICache.is_index_expired()
CacheIsIndexExpired ==
    /\ op' = Called("is_index_expired",
                    [is_expired |-> is_index_expired(last_index_update, now)], "-")
    /\ UNCHANGED <<impl, versionVars, local_index, remote_index, last_index_update, index_file,
                   now, phase, task>>
    /\ UNCHANGED cacheVars

NextPyPICache ==
    \/ \E packages \in SUBSET PackageNames : CacheUpdateLocalIndex(packages)
    \/ \E packages \in SUBSET PackageNames : CacheUpdateRemoteIndex(packages)
    \/ CacheGetMergedIndex
    \/ CacheIsIndexExpired
    \/ Tick

\* the index kept by a PyPICache object
SpecPyPICache == InitPyPICache /\ [][NextPyPICache]_vars

\* C31: a change of the local set touches nothing else, and a refresh
\* touches nothing but the remote set and the timestamp: update_local_index
\* and remove_from_local_index leave remote_index and last_index_update as
\* they were (a stale index stays stale), and update_remote_index and
\* update_index leave local_index as it was.
IndexFrameConditions ==
    /\ [][op'.name \in {"update_local_index", "remove_from_local_index"}
             => /\ UNCHANGED <<remote_index, last_index_update>>
                /\ is_index_expired(last_index_update, now)
                      => is_index_expired(last_index_update', now')]_vars
    /\ [][(\/ op'.name = "update_remote_index"
           \/ /\ op'.name \in {"init_index", "update_index", "list_packages"}
              /\ op'.io # "-")
             => UNCHANGED local_index]_vars

(***************************************************************************)
(* Refresh cycles of one list request (SpecIndex)                          *)
(***************************************************************************)
\* C32: one list request runs list_upstream_packages at most once: a
\* list_packages call that has been through the refresh of its init_index
\* does not enter update_index a second time.
OneRefreshPerListRequest ==
    [][task["main"].run = "list_init" => task'["main"].run # "list_update"]_vars

(***************************************************************************)
(* Requests that end in 404 (SpecCache)                                    *)
(***************************************************************************)
\* C33: a get_package call that ends in HTTP 404 has created nothing: the
\* step in which the mirror loop gives up and the 404 is raised leaves every
\* file and every package and version directory of the storage tree as it
\* was.
NotFoundLeavesTree ==
    [][\A p \in Procs :
          (/\ get[p].pc \in {"await_index", "await_file"}
           /\ get'[p].pc = "done"
           /\ get'[p].result.kind = "404")
             => UNCHANGED <<files, dirs>>]_vars

(***************************************************************************)
(* Storing on a filesystem that may break a write off (SpecStorage)        *)
(***************************************************************************)
\* a file of length 0: what open(path, "wb") leaves when the write raises
EmptyFile == -1

\* the artifact fetch answers with a payload and the write of the file
\* breaks off: the directories and the file exist, the file is empty
FileResponseTruncated(p, response) ==
    /\ get[p].pc = "await_file"
    /\ response.status = "ok"
    /\ LET frame == get[p]
           content == response.body
           package_path == PathOf(frame.req)
       IN /\ dirs' = mkdir_parents(dirs, package_path)
          /\ files' = write_bytes(files, package_path, EmptyFile)
          /\ get' = [get EXCEPT ![p] =
                       IF impl = "pypi"
                       THEN [frame EXCEPT !.pc = "done", !.url = NoUrl,
                                          !.tried = Concluded(frame, "ok", content),
                                          !.result = StorageError]
                       ELSE next_source(impl, frame)]
    /\ UNCHANGED <<impl, versionVars, fetched, op>>
    /\ UNCHANGED indexVars

NextStorage ==
    \/ \E req \in Requests : GetPackage(1, req)
    \/ \E index_content \in IndexResponses : IndexResponse(1, index_content)
    \/ \E response \in FileResponses, storage \in StorageOutcomes :
          FileResponse(1, response, storage)
    \/ \E response \in FileResponses : FileResponseTruncated(1, response)
    \/ ReleaseRequest(1)

\* one client of get_package at a time
SpecStorage == Init /\ [][NextStorage]_vars

\* C34: nothing empty is cached or handed out: every file in the storage
\* tree holds a non-empty payload, and every get_package call that returns
\* bytes returns a non-empty payload.
NoEmptyArtifact ==
    /\ \A path \in StoragePaths : files[path] \in {NoFile} \cup Contents
    /\ \A p \in Procs :
          get[p].result.kind = "bytes" => get[p].result.data \in Contents

(***************************************************************************)
(* What a delete touches (SpecDelete)                                      *)
(***************************************************************************)
\* C35: delete_package removes everything or nothing: when it returns True
\* the version directory and all its files are gone, and when it returns
\* False, also after a removal that failed part-way, the storage tree is
\* exactly as it was before the call.
DeleteAllOrNothing ==
    [][DeleteStep =>
          LET package_dir == <<normalize_package_name(op'.ret.package), op'.ret.version>>
          IN /\ op'.ret.returned = "true" =>
                   /\ package_dir \notin dirs'
                   /\ FilesIn(files', package_dir) = {}
             /\ op'.ret.returned = "false" => UNCHANGED <<files, dirs>>]_vars

\* C36: delete_package(name, version) touches that version only: the files
\* of every other version directory and of every other package, and every
\* directory but the one of the version (and of the package, once it has no
\* version left), are as before; remote_index and last_index_update are
\* unchanged, and the package is still in local_index when another version
\* of it remains.
DeleteTouchesOneVersion ==
    [][DeleteStep =>
          LET name == normalize_package_name(op'.ret.package)
              package_dir == <<name, op'.ret.version>>
          IN /\ \A path \in StoragePaths :
                   <<path[1], path[2]>> # package_dir => files'[path] = files[path]
             /\ dirs' \subseteq dirs
             /\ dirs \ dirs' \subseteq {package_dir, <<name>>}
             /\ <<name>> \in dirs \ dirs' => VersionDirsIn(dirs', name) = {}
             /\ UNCHANGED <<remote_index, last_index_update>>
             /\ (VersionDirsIn(dirs', name) # {} /\ name \in local_index)
                   => name \in local_index']_vars

\* version 1.0 was deleted while version 2.0 of the package is still there,
\* with its file, and the package is still registered
OtherVersionKept ==
    /\ op.name = "delete_package"
    /\ op.ret.returned = "true"
    /\ op.ret.version = "1.0"
    /\ <<normalize_package_name(op.ret.package), "1.0">> \notin dirs
    /\ FilesIn(files, <<normalize_package_name(op.ret.package), "2.0">>) # {}
    /\ <<normalize_package_name(op.ret.package)>> \in dirs
    /\ normalize_package_name(op.ret.package) \in local_index

(***************************************************************************)
(* Remote names and their timestamp (SpecIndex)                            *)
(***************************************************************************)
\* C37: remote names are never held without a refresh timestamp: in every
\* state reached through start-up, loads of the program's own snapshot,
\* local changes, refreshes and clear_index, last_index_update is None only
\* when remote_index is empty.
RemoteImpliesTimestamp ==
    last_index_update = NoTime => remote_index = {}

\* init_index has loaded a snapshot written before the first refresh: local
\* names, no remote names, no timestamp
LoadedWithoutTimestamp ==
    /\ op.name = "init_index"
    /\ op.ret = "updating"
    /\ last_index_update = NoTime
    /\ remote_index = {}
    /\ local_index # {}
    /\ SnapshotMatchesMemory

(***************************************************************************)
(* The version route and its cache (SpecVersions)                          *)
(***************************************************************************)
\* PyPICache.get_package_versions: the cached versions, or None (NoResult)
\* for an unknown package and for an entry older than the cache's ttl
get_package_versions(cache, package_name, clock) ==
    IF cache[package_name] = NoEntry THEN NoResult
    ELSE IF clock - cache[package_name].last_updated > cache_ttl THEN NoResult
    ELSE [kind |-> "list", versions |-> cache[package_name].versions]

\* PyPICache.update_package_versions
update_package_versions(cache, package_name, versions, clock) ==
    [cache EXCEPT ![package_name] = PackageCache(versions, clock)]

\* what the route answers with
Listed(package_name, versions, cached) ==
    [package |-> package_name, versions |-> versions, cached |-> cached]

\* the route get_package_versions up to its await or to its answer: a cached
\* list is answered at once; on None list_versions is called, which answers
\* without an await when the package has a directory in the storage tree
\* and fetches the package page from the mirrors otherwise
GetPackageVersions(p, package_name) ==
    /\ lookup[p].pc = "idle"
    /\ LET cached_versions == get_package_versions(pypi_cache, package_name, now)
           versions == {d[2] : d \in VersionDirsIn(dirs, package_name)}
       IN IF cached_versions.kind # "none"
          THEN /\ op' = Called("get_package_versions",
                               Listed(package_name, cached_versions.versions, TRUE), "-")
               /\ UNCHANGED versionVars
          ELSE IF <<package_name>> \in dirs
          THEN /\ pypi_cache' = update_package_versions(pypi_cache, package_name, versions, now)
               /\ op' = Called("get_package_versions",
                               Listed(package_name, versions, FALSE), "-")
               /\ UNCHANGED lookup
          ELSE /\ lookup' = [lookup EXCEPT ![p] =
                               [pc |-> "await_versions", package_name |-> package_name,
                                called_at |-> now]]
               /\ op' = Called("list_versions", Listed(package_name, {}, FALSE), "-")
               /\ UNCHANGED pypi_cache
    /\ UNCHANGED <<impl, cacheVars, indexVars>>

\* list_versions returns what it found on the mirrors; the route stores it
\* and answers
ListVersionsReturns(p, versions) ==
    /\ lookup[p].pc = "await_versions"
    /\ pypi_cache' = update_package_versions(pypi_cache, lookup[p].package_name, versions, now)
    /\ lookup' = [lookup EXCEPT ![p] = IdleLookup]
    /\ op' = Called("get_package_versions",
                    Listed(lookup[p].package_name, versions, FALSE), "-")
    /\ UNCHANGED <<impl, cacheVars, indexVars>>

NextVersions ==
    \/ \E p \in Procs, package_name \in RawNames : GetPackageVersions(p, package_name)
    \/ \E p \in Procs, versions \in VersionLists : ListVersionsReturns(p, versions)
    \/ Tick

\* requests for the version list of a package
SpecVersions == Init /\ [][NextVersions]_vars

\* C38: the version cache answers with the list of the latest
\* update_package_versions while the entry is at most cache_ttl old and with
\* None otherwise; the route calls list_versions only on None and stores
\* what it gets; so no two list_versions calls for one package are made
\* within cache_ttl of each other.
VersionCacheContract ==
    /\ [][(op'.name = "get_package_versions" /\ op'.ret.cached)
             => /\ pypi_cache[op'.ret.package] # NoEntry
                /\ now - pypi_cache[op'.ret.package].last_updated <= cache_ttl
                /\ op'.ret.versions = pypi_cache[op'.ret.package].versions
                /\ UNCHANGED versionVars]_vars
    /\ [][(op'.name = "list_versions" \/ (op'.name = "get_package_versions" /\ ~op'.ret.cached))
             => /\ \/ \E p \in Procs : lookup[p].pc = "await_versions" /\ lookup'[p].pc = "idle"
                   \/ pypi_cache[op'.ret.package] = NoEntry
                   \/ now - pypi_cache[op'.ret.package].last_updated > cache_ttl
                /\ op'.name = "get_package_versions"
                      => pypi_cache'[op'.ret.package] = PackageCache(op'.ret.versions, now)]_vars
    /\ [](\A p, q \in Procs :
             (/\ p # q
              /\ lookup[p].pc = "await_versions"
              /\ lookup[q].pc = "await_versions"
              /\ lookup[p].package_name = lookup[q].package_name)
                => lookup[p].called_at - lookup[q].called_at > cache_ttl
                   \/ lookup[q].called_at - lookup[p].called_at > cache_ttl)

====
